---- MODULE Spec2Model ----
(***************************************************************************)
(* Model of main.py: the POST /query pipeline (get_answer and the async    *)
(* generator stream_answer), the chat_history table behind the single      *)
(* module-level sqlite3 connection and cursor, GET /history,               *)
(* DELETE /clear_history, and the pure function resize_embedding.          *)
(*                                                                         *)
(* Threads.  stream_answer runs on the event loop; between two awaits a    *)
(* coroutine is not interleaved with another coroutine.  The two           *)
(* synchronous endpoints run on worker threads, so each of their cursor    *)
(* calls can fall between any two calls of another request.  One call on   *)
(* the cursor or the connection is one step.                               *)
(***************************************************************************)
EXTENDS Integers, Sequences, FiniteSets, TLC

\* ------------------------------------------------------------------ bounds
NumQueries == 2          \* POST /query requests of a run
NumClients == 2          \* callers of GET /history and DELETE /clear_history
MaxAnswerLen == 4        \* characters of an answer, presenter specification
MaxLen == 3              \* components of a raw embedding, resize specification
MaxDim == 3              \* explicit target sizes, resize specification
MaxTexts == 2            \* texts of one embed_documents call, resize specification

target_size == 1024      \* default of resize_embedding's target_size

Reqs == 1..NumQueries
Clients == 1..NumClients

None == <<"none">>
ReqId(r) == <<"query", r>>
ClientId(h) == <<"history", h>>

\* Texts are sequences of one-character strings.
Whitespace == {" ", "\n", "\t"}
Alphabet == {"a", "b"} \cup Whitespace
Queries == {<<"q">>, <<"r">>}
Answers == {<<" ">>, <<"a", " ", "b">>}

\* "The funding is 2 million euros."
ExampleAnswer ==
    <<
      "T", "h", "e", " ", "f", "u", "n", "d", "i", "n", "g",
      " ", "i", "s", " ", "2", " ", "m", "i", "l", "l", "i",
      "o", "n", " ", "e", "u", "r", "o", "s", "."
    >>

\* Components of the embeddings tried, and the lengths a provider returns.
Components == {-1, 0, 1}
Pattern(n, k) == [i \in 1..n |-> ((i + k) % 3) - 1]
ProviderLengths == (0..MaxLen) \cup {target_size - 1, target_size, target_size + 1}
ProviderVectors == {Pattern(n, k) : n \in ProviderLengths, k \in 0..1}

RECURSIVE SeqsUpTo(_, _)
SeqsUpTo(S, n) ==
    IF n = 0 THEN {<< >>}
    ELSE LET shorter == SeqsUpTo(S, n - 1)
         IN  shorter \cup {Append(s, x) : s \in {t \in shorter : Len(t) = n - 1}, x \in S}

VARIABLES
    qpc,        \* per query request: where get_answer / stream_answer stands
    query,      \* per query request: request.query
    answer,     \* per query request: response['result'] once generation returned
    status,     \* per query request: HTTP status the caller has received (0: none yet)
    chunks,     \* per query request: the chunks the caller has received, in order
    connected,  \* per query request: the caller is still connected
    recId,      \* per query request: rowid its INSERT was given (0: no INSERT executed)
    table,      \* chat_history as the connection sees it (pending transaction included)
    disk,       \* chat_history as last committed
    seq,        \* sqlite_sequence entry of chat_history: largest rowid ever given
    cursor,     \* the shared cursor: who executed its statement, rows not yet fetched
    hpc,        \* per history caller: where its handler stands
    hresp,      \* per history caller: the last response it received
    hseen,      \* per history caller in GET: every content chat_history had during the
                \* call, as the connection saw it or as committed (history variable)
    hafter,     \* per history caller in GET: the callers whose clear had returned success,
                \* with no append executed or committed since, when its SELECT ran
                \* (history variable)
    clean,      \* per history caller, about its last DELETE /clear_history (history
                \* variable): "pending" DELETE executed, no INSERT since; "raced" DELETE
                \* executed, an INSERT since; "yes" success returned, no INSERT since the
                \* DELETE; "late" success returned, an INSERT between DELETE and return
                \* and no INSERT or append commit since the return; "no" otherwise
    epc,        \* resize specification: stage
    raw,        \* resize specification: the provider's raw embeddings
    dim,        \* resize specification: target size in use
    resized     \* resize specification: the vectors returned

pipe == <<qpc, query, answer, status, chunks, connected, recId>>
store == <<table, disk, seq, cursor>>
hist == <<hpc, hresp, hseen, hafter, clean>>
emb == <<epc, raw, dim, resized>>
vars == <<qpc, query, answer, status, chunks, connected, recId,
          table, disk, seq, cursor, hpc, hresp, hseen, hafter, clean,
          epc, raw, dim, resized>>

\* ------------------------------------------------------------ pure helpers

\* Mutant: the downsampling keeps the last components, the padding goes in front.
ResizeTail_from_the_end(embedding, size) ==
    IF Len(embedding) > size
    THEN SubSeq(embedding, Len(embedding) - size + 1, Len(embedding))
    ELSE [i \in 1..size |->
            IF i > size - Len(embedding) THEN embedding[i - (size - Len(embedding))] ELSE 0]

\* lines 50-60: the first target_size components, or the input in front of zeros.
ResizeTail(embedding, size) ==
    IF Len(embedding) > size
    THEN SubSeq(embedding, 1, size)
    ELSE [i \in 1..size |-> IF i <= Len(embedding) THEN embedding[i] ELSE 0]

\* lines 45-48, then the above.
resize_embedding(embedding, size) ==
    IF Len(embedding) = size THEN embedding ELSE ResizeTail(embedding, size)

\* str.split() of line 179: maximal runs of non-whitespace, left to right,
\* scanned one character at a time.
RECURSIVE SplitFrom(_, _, _, _)
SplitFrom(s, i, cur, acc) ==
    IF i > Len(s)
    THEN IF cur = << >> THEN acc ELSE Append(acc, cur)
    ELSE IF s[i] \in Whitespace
         THEN SplitFrom(s, i + 1, << >>, IF cur = << >> THEN acc ELSE Append(acc, cur))
         ELSE SplitFrom(s, i + 1, Append(cur, s[i]), acc)

\* Mutant: answer.split(" "), which cuts at every single space only.
RECURSIVE SplitOnSpaceFrom(_, _, _, _)
SplitOnSpaceFrom(s, i, cur, acc) ==
    IF i > Len(s) THEN Append(acc, cur)
    ELSE IF s[i] = " "
         THEN SplitOnSpaceFrom(s, i + 1, << >>, Append(acc, cur))
         ELSE SplitOnSpaceFrom(s, i + 1, Append(cur, s[i]), acc)
Split_on_single_space(s) == SplitOnSpaceFrom(s, 1, << >>, << >>)

Split(s) == SplitFrom(s, 1, << >>, << >>)

\* line 180: word + " "
Chunk(word) == word \o <<" ">>

\* Mutant: ORDER BY id ASC.
RECURSIVE OrderByIdAsc(_)
OrderByIdAsc(rows) ==
    IF rows = {} THEN << >>
    ELSE LET low == CHOOSE x \in rows : \A y \in rows : x.id <= y.id
         IN  <<low>> \o OrderByIdAsc(rows \ {low})

\* ORDER BY id DESC of line 194, over a set of rows with distinct ids.
RECURSIVE OrderByIdDesc(_)
OrderByIdDesc(rows) ==
    IF rows = {} THEN << >>
    ELSE LET top == CHOOSE x \in rows : \A y \in rows : y.id <= x.id
         IN  <<top>> \o OrderByIdDesc(rows \ {top})

\* SELECT question, answer of line 194; line 195 builds the dicts from them.
SelectQuestionAnswer(rows) ==
    LET ordered == OrderByIdDesc(rows)
    IN  [i \in 1..Len(ordered) |->
            [question |-> ordered[i].question, answer |-> ordered[i].answer]]

\* A statement that returns no rows, executed by `who`.
NoRows(who) == [owner |-> who, rows |-> << >>]

\* History variable: a write or a commit during a GET call adds the new content
\* to what the call could have seen.
Seen(rows) ==
    [h \in Clients |->
        IF hpc[h] = "selected" THEN hseen[h] \cup {SelectQuestionAnswer(rows)}
        ELSE hseen[h]]

\* History variable: what an INSERT and what the commit of an append do to clean.
AfterInsert(c) == IF c \in {"pending", "raced"} THEN "raced" ELSE "no"
AfterAppendCommit(c) == IF c = "late" THEN "no" ELSE c

\* The event loop runs one coroutine at a time: lines 176-177 have no await
\* between them, so no other coroutine runs while one stands between them.
LoopFree(r) == \A o \in Reqs \ {r} : qpc[o] # "inserted"

\* ------------------------------------------------------------------- Init

Init ==
    /\ qpc = [r \in Reqs |-> "idle"]
    /\ query = [r \in Reqs |-> << >>]
    /\ answer = [r \in Reqs |-> << >>]
    /\ status = [r \in Reqs |-> 0]
    /\ chunks = [r \in Reqs |-> << >>]
    /\ connected = [r \in Reqs |-> TRUE]
    /\ recId = [r \in Reqs |-> 0]
    /\ table = {}
    /\ disk = {}
    /\ seq = 0
    /\ cursor = NoRows(None)
    /\ hpc = [h \in Clients |-> "idle"]
    /\ hresp = [h \in Clients |-> << >>]
    /\ hseen = [h \in Clients |-> {}]
    /\ hafter = [h \in Clients |-> {}]
    /\ clean = [h \in Clients |-> "no"]
    /\ epc = "off"
    /\ raw = << >>
    /\ dim = 0
    /\ resized = << >>

\* ------------------------------------------------------------ POST /query

\* lines 183-189.  Calling stream_answer only creates the generator, so nothing
\* raises inside the try; StreamingResponse starts with its default status 200
\* before it takes the first item from the generator.
get_answer(r) ==
    /\ qpc[r] = "idle"
    /\ LoopFree(r)
    /\ \E q \in Queries : query' = [query EXCEPT ![r] = q]
    /\ qpc' = [qpc EXCEPT ![r] = "accepted"]
    /\ status' = [status EXCEPT ![r] = 200]
    /\ UNCHANGED <<answer, chunks, connected, recId, store, hist, emb>>

\* line 161 returns, line 172 hands qa_chain.invoke to a thread and awaits it.
stream_answer_retrieve(r) ==
    /\ qpc[r] = "accepted"
    /\ LoopFree(r)
    /\ qpc' = [qpc EXCEPT ![r] = "generating"]
    /\ UNCHANGED <<query, answer, status, chunks, connected, recId, store, hist, emb>>

\* line 161 raises: the generator ends with the exception, after the 200.
stream_answer_retrieve_fail(r) ==
    /\ qpc[r] = "accepted"
    /\ LoopFree(r)
    /\ qpc' = [qpc EXCEPT ![r] = "failed_retrieval"]
    /\ UNCHANGED <<query, answer, status, chunks, connected, recId, store, hist, emb>>

\* Mutant: the answer is streamed before anything is written.
stream_answer_generate_streams_first(r) ==
    /\ qpc[r] = "generating"
    /\ LoopFree(r)
    /\ \E a \in Answers : answer' = [answer EXCEPT ![r] = a]
    /\ qpc' = [qpc EXCEPT ![r] = "streaming"]
    /\ UNCHANGED <<query, status, chunks, connected, recId, store, hist, emb>>

\* lines 172-173: the thread returned, the coroutine resumes with the answer.
stream_answer_generate(r) ==
    /\ qpc[r] = "generating"
    /\ LoopFree(r)
    /\ \E a \in Answers : answer' = [answer EXCEPT ![r] = a]
    /\ qpc' = [qpc EXCEPT ![r] = "generated"]
    /\ UNCHANGED <<query, status, chunks, connected, recId, store, hist, emb>>

\* Mutant: the question is logged although the generation call raised.
stream_answer_generate_fail_logged(r) ==
    /\ qpc[r] = "generating"
    /\ LoopFree(r)
    /\ table' = table \cup {[id |-> seq + 1, question |-> query[r], answer |-> << >>]}
    /\ seq' = seq + 1
    /\ recId' = [recId EXCEPT ![r] = seq + 1]
    /\ qpc' = [qpc EXCEPT ![r] = "failed_generation"]
    /\ UNCHANGED <<query, answer, status, chunks, connected, disk, cursor, hist, emb>>

\* line 172 raises in the coroutine.
stream_answer_generate_fail(r) ==
    /\ qpc[r] = "generating"
    /\ LoopFree(r)
    /\ qpc' = [qpc EXCEPT ![r] = "failed_generation"]
    /\ UNCHANGED <<query, answer, status, chunks, connected, recId, store, hist, emb>>

\* Mutant: a rowid table without AUTOINCREMENT gives the largest stored rowid + 1.
NextRowId_without_autoincrement ==
    IF table = {} THEN 1 ELSE (CHOOSE x \in table : \A y \in table : y.id <= x.id).id + 1

\* line 176: the INSERT takes the rowid AUTOINCREMENT gives it (line 145): one
\* more than the largest rowid the table ever held.
NextRowId == seq + 1

stream_answer_insert(r) ==
    /\ qpc[r] = "generated"
    /\ LoopFree(r)
    /\ LET row == [id |-> NextRowId, question |-> query[r], answer |-> answer[r]]
       IN  /\ table' = table \cup {row}
           /\ seq' = row.id
           /\ recId' = [recId EXCEPT ![r] = row.id]
           /\ hseen' = Seen(table \cup {row})
    /\ cursor' = NoRows(ReqId(r))
    /\ clean' = [h \in Clients |-> AfterInsert(clean[h])]
    /\ qpc' = [qpc EXCEPT ![r] = "inserted"]
    /\ UNCHANGED <<query, answer, status, chunks, connected, disk, hpc, hresp, hafter, emb>>

\* line 176 raises (storage error): execute has reset the cursor's statement
\* or not, depending on where it failed.
stream_answer_insert_fail(r) ==
    /\ qpc[r] = "generated"
    /\ LoopFree(r)
    /\ \E reset \in BOOLEAN : cursor' = IF reset THEN NoRows(ReqId(r)) ELSE cursor
    /\ qpc' = [qpc EXCEPT ![r] = "failed_insert"]
    /\ UNCHANGED <<query, answer, status, chunks, connected, recId,
                   table, disk, seq, hist, emb>>

\* line 177: commit of whatever the connection's transaction holds.
stream_answer_commit(r) ==
    /\ qpc[r] = "inserted"
    /\ disk' = table
    /\ hseen' = Seen(table)
    /\ clean' = [h \in Clients |-> AfterAppendCommit(clean[h])]
    /\ qpc' = [qpc EXCEPT ![r] = "streaming"]
    /\ UNCHANGED <<query, answer, status, chunks, connected, recId,
                   table, seq, cursor, hpc, hresp, hafter, emb>>

\* line 177 raises.
stream_answer_commit_fail(r) ==
    /\ qpc[r] = "inserted"
    /\ qpc' = [qpc EXCEPT ![r] = "failed_commit"]
    /\ UNCHANGED <<query, answer, status, chunks, connected, recId, store, hist, emb>>

\* lines 179-181: the next word of answer.split(), then the sleep.
stream_answer_yield(r) ==
    /\ qpc[r] = "streaming"
    /\ LoopFree(r)
    /\ connected[r]
    /\ Len(chunks[r]) < Len(Split(answer[r]))
    /\ chunks' = [chunks EXCEPT ![r] = Append(@, Chunk(Split(answer[r])[Len(@) + 1]))]
    /\ UNCHANGED <<qpc, query, answer, status, connected, recId, store, hist, emb>>

\* line 179: the loop is over, the generator returns, the response ends.
stream_answer_return(r) ==
    /\ qpc[r] = "streaming"
    /\ LoopFree(r)
    /\ Len(chunks[r]) = Len(Split(answer[r]))
    /\ qpc' = [qpc EXCEPT ![r] = "done"]
    /\ UNCHANGED <<query, answer, status, chunks, connected, recId, store, hist, emb>>

\* The caller goes away while its request is in flight.
disconnect(r) ==
    /\ qpc[r] \in {"accepted", "generating", "generated", "inserted", "streaming"}
    /\ connected[r]
    /\ connected' = [connected EXCEPT ![r] = FALSE]
    /\ UNCHANGED <<qpc, query, answer, status, chunks, recId, store, hist, emb>>

\* The response task is cancelled where the coroutine is suspended: before its
\* first step, in the await of line 172, or in the await of line 181.
\* Mutant: an await between the answer and the commit.
CancelPoints_any_stage == {"accepted", "generating", "generated", "inserted", "streaming"}

CancelPoints == {"accepted", "generating", "streaming"}

\* Cancelled in the await of line 172, the coroutine is gone while the thread
\* that runs qa_chain.invoke goes on.
cancel(r) ==
    /\ qpc[r] \in CancelPoints
    /\ ~connected[r]
    /\ LoopFree(r)
    /\ qpc' = [qpc EXCEPT ![r] = IF @ = "generating" THEN "abandoned" ELSE "cancelled"]
    /\ UNCHANGED <<query, answer, status, chunks, connected, recId, store, hist, emb>>

\* line 172, after the cancellation: the thread ends with an answer or with an
\* exception (no answer), and nobody takes the result.
stream_answer_thread_ends(r) ==
    /\ qpc[r] = "abandoned"
    /\ \E a \in Answers \cup {<< >>} : answer' = [answer EXCEPT ![r] = a]
    /\ qpc' = [qpc EXCEPT ![r] = "cancelled"]
    /\ UNCHANGED <<query, status, chunks, connected, recId, store, hist, emb>>

\* ----------------------------------------------------------- GET /history

\* line 194: execute the SELECT on the shared cursor.
get_chat_history_select(h) ==
    /\ hpc[h] = "idle"
    /\ cursor' = [owner |-> ClientId(h), rows |-> SelectQuestionAnswer(table)]
    /\ hpc' = [hpc EXCEPT ![h] = "selected"]
    /\ hseen' = [hseen EXCEPT ![h] = {SelectQuestionAnswer(table),
                                      SelectQuestionAnswer(disk)}]
    /\ hafter' = [hafter EXCEPT ![h] = {c \in Clients : clean[c] \in {"yes", "late"}}]
    /\ UNCHANGED <<pipe, table, disk, seq, hresp, clean, emb>>

\* line 195: fetchall takes whatever rows the cursor still holds.
get_chat_history_fetchall(h) ==
    /\ hpc[h] = "selected"
    /\ hresp' = [hresp EXCEPT ![h] = cursor.rows]
    /\ cursor' = NoRows(None)
    /\ hpc' = [hpc EXCEPT ![h] = "listed"]
    /\ hseen' = [hseen EXCEPT ![h] = {}]
    /\ UNCHANGED <<pipe, table, disk, seq, hafter, clean, emb>>

\* --------------------------------------------------- DELETE /clear_history

\* Mutant: the DELETE spares the newest record.
Deleted_spares_newest(rows) == {x \in rows : \A y \in rows : y.id <= x.id}

\* line 202: DELETE without a WHERE.
Deleted(rows) == {}

clear_chat_history_delete(h) ==
    /\ hpc[h] = "idle"
    /\ table' = Deleted(table)
    /\ cursor' = NoRows(ClientId(h))
    /\ hseen' = Seen(Deleted(table))
    /\ clean' = [clean EXCEPT ![h] = "pending"]
    /\ hpc' = [hpc EXCEPT ![h] = "deleted"]
    /\ UNCHANGED <<pipe, disk, seq, hresp, hafter, emb>>

\* line 202 raises, lines 205-206 answer 500.
clear_chat_history_delete_fail(h) ==
    /\ hpc[h] = "idle"
    /\ \E reset \in BOOLEAN : cursor' = IF reset THEN NoRows(ClientId(h)) ELSE cursor
    /\ clean' = [clean EXCEPT ![h] = "no"]
    /\ hpc' = [hpc EXCEPT ![h] = "error"]
    /\ UNCHANGED <<pipe, table, disk, seq, hresp, hafter, hseen, emb>>

\* lines 203-204
clear_chat_history_commit(h) ==
    /\ hpc[h] = "deleted"
    /\ disk' = table
    /\ hseen' = Seen(table)
    /\ clean' = [clean EXCEPT ![h] = IF @ = "pending" THEN "yes" ELSE "late"]
    /\ hpc' = [hpc EXCEPT ![h] = "cleared"]
    /\ UNCHANGED <<pipe, table, seq, cursor, hresp, hafter, emb>>

\* line 203 raises, lines 205-206 answer 500.
clear_chat_history_commit_fail(h) ==
    /\ hpc[h] = "deleted"
    /\ clean' = [clean EXCEPT ![h] = "no"]
    /\ hpc' = [hpc EXCEPT ![h] = "error"]
    /\ UNCHANGED <<pipe, store, hresp, hafter, hseen, emb>>

\* lines 196, 204, 206: the response has gone out; the caller may call again.
respond(h) ==
    /\ hpc[h] \in {"listed", "cleared", "error"}
    /\ hpc' = [hpc EXCEPT ![h] = "idle"]
    /\ hresp' = [hresp EXCEPT ![h] = << >>]
    /\ hafter' = [hafter EXCEPT ![h] = {}]
    /\ UNCHANGED <<pipe, store, hseen, clean, emb>>

PipelineStep(r) ==
    \/ get_answer(r)
    \/ stream_answer_retrieve(r)
    \/ stream_answer_retrieve_fail(r)
    \/ stream_answer_generate(r)
    \/ stream_answer_generate_fail(r)
    \/ stream_answer_insert(r)
    \/ stream_answer_insert_fail(r)
    \/ stream_answer_commit(r)
    \/ stream_answer_commit_fail(r)
    \/ stream_answer_yield(r)
    \/ stream_answer_return(r)
    \/ disconnect(r)
    \/ cancel(r)
    \/ stream_answer_thread_ends(r)

ClearStep(h) ==
    \/ clear_chat_history_delete(h)
    \/ clear_chat_history_delete_fail(h)
    \/ clear_chat_history_commit(h)
    \/ clear_chat_history_commit_fail(h)
    \/ respond(h)

\* The pipeline of every query, with one caller clearing the history.
Next ==
    \/ \E r \in Reqs : PipelineStep(r)
    \/ ClearStep(1)

Spec == Init /\ [][Next]_vars

\* ------------------------------------------- the shared cursor under load

\* Every query has its answer and stands before line 176; the history
\* callers call GET /history and DELETE /clear_history in any order.
HistInit ==
    /\ qpc = [r \in Reqs |-> "generated"]
    /\ query \in [Reqs -> Queries]
    /\ answer \in [Reqs -> Answers]
    /\ status = [r \in Reqs |-> 200]
    /\ chunks = [r \in Reqs |-> << >>]
    /\ connected = [r \in Reqs |-> TRUE]
    /\ recId = [r \in Reqs |-> 0]
    /\ table = {}
    /\ disk = {}
    /\ seq = 0
    /\ cursor = NoRows(None)
    /\ hpc = [h \in Clients |-> "idle"]
    /\ hresp = [h \in Clients |-> << >>]
    /\ hseen = [h \in Clients |-> {}]
    /\ hafter = [h \in Clients |-> {}]
    /\ clean = [h \in Clients |-> "no"]
    /\ epc = "off"
    /\ raw = << >>
    /\ dim = 0
    /\ resized = << >>

HistNext ==
    \/ \E r \in Reqs : stream_answer_insert(r)
    \/ \E r \in Reqs : stream_answer_commit(r)
    \/ \E h \in Clients : get_chat_history_select(h)
    \/ \E h \in Clients : get_chat_history_fetchall(h)
    \/ \E h \in Clients : ClearStep(h)

HistSpec == HistInit /\ [][HistNext]_vars

\* --------------------------------------------------- the presenter alone

\* Query 1 stands at line 179 with any answer, its record written by lines
\* 176-177; nobody else calls.
PresentInit ==
    /\ \E a \in SeqsUpTo(Alphabet, MaxAnswerLen) \cup {ExampleAnswer} :
          /\ answer = [r \in Reqs |-> IF r = 1 THEN a ELSE << >>]
          /\ table = {[id |-> 1, question |-> <<"q">>, answer |-> a]}
    /\ disk = table
    /\ qpc = [r \in Reqs |-> IF r = 1 THEN "streaming" ELSE "idle"]
    /\ query = [r \in Reqs |-> IF r = 1 THEN <<"q">> ELSE << >>]
    /\ status = [r \in Reqs |-> IF r = 1 THEN 200 ELSE 0]
    /\ chunks = [r \in Reqs |-> << >>]
    /\ connected = [r \in Reqs |-> TRUE]
    /\ recId = [r \in Reqs |-> IF r = 1 THEN 1 ELSE 0]
    /\ seq = 1
    /\ cursor = NoRows(ReqId(1))
    /\ hpc = [h \in Clients |-> "idle"]
    /\ hresp = [h \in Clients |-> << >>]
    /\ hseen = [h \in Clients |-> {}]
    /\ hafter = [h \in Clients |-> {}]
    /\ clean = [h \in Clients |-> "no"]
    /\ epc = "off"
    /\ raw = << >>
    /\ dim = 0
    /\ resized = << >>

PresentNext ==
    \/ stream_answer_yield(1)
    \/ stream_answer_return(1)
    \/ disconnect(1)
    \/ cancel(1)

PresentSpec == PresentInit /\ [][PresentNext]_vars

\* ------------------------------------------------------ the embeddings alone

\* lines 45-60 called with an explicit target size.
call_resize_embedding ==
    /\ epc = "ready"
    /\ \E e \in SeqsUpTo(Components, MaxLen), d \in 0..MaxDim :
          /\ raw' = <<e>>
          /\ dim' = d
          /\ resized' = <<resize_embedding(e, d)>>
    /\ epc' = "resized"
    /\ UNCHANGED <<pipe, store, hist>>

\* lines 68-70: the provider's vector for the text, resized to the default.
embed_query ==
    /\ epc = "ready"
    /\ \E e \in ProviderVectors :
          /\ raw' = <<e>>
          /\ resized' = <<resize_embedding(e, target_size)>>
    /\ dim' = target_size
    /\ epc' = "query"
    /\ UNCHANGED <<pipe, store, hist>>

\* lines 64-66: one provider vector per text, each resized to the default.
embed_documents ==
    /\ epc = "ready"
    /\ \E es \in SeqsUpTo(ProviderVectors, MaxTexts) :
          /\ raw' = es
          /\ resized' = [i \in 1..Len(es) |-> resize_embedding(es[i], target_size)]
    /\ dim' = target_size
    /\ epc' = "documents"
    /\ UNCHANGED <<pipe, store, hist>>

\* The vectors have been handed back; the next call may come.
embed_done ==
    /\ epc \in {"resized", "query", "documents"}
    /\ epc' = "ready"
    /\ raw' = << >>
    /\ dim' = 0
    /\ resized' = << >>
    /\ UNCHANGED <<pipe, store, hist>>

EmbedInit ==
    /\ qpc = [r \in Reqs |-> "idle"]
    /\ query = [r \in Reqs |-> << >>]
    /\ answer = [r \in Reqs |-> << >>]
    /\ status = [r \in Reqs |-> 0]
    /\ chunks = [r \in Reqs |-> << >>]
    /\ connected = [r \in Reqs |-> TRUE]
    /\ recId = [r \in Reqs |-> 0]
    /\ table = {}
    /\ disk = {}
    /\ seq = 0
    /\ cursor = NoRows(None)
    /\ hpc = [h \in Clients |-> "idle"]
    /\ hresp = [h \in Clients |-> << >>]
    /\ hseen = [h \in Clients |-> {}]
    /\ hafter = [h \in Clients |-> {}]
    /\ clean = [h \in Clients |-> "no"]
    /\ epc = "ready"
    /\ raw = << >>
    /\ dim = 0
    /\ resized = << >>

EmbedNext ==
    \/ call_resize_embedding
    \/ embed_query
    \/ embed_documents
    \/ embed_done

EmbedSpec == EmbedInit /\ [][EmbedNext]_vars

\* ================================================================ claims

FailedStages == {"failed_retrieval", "failed_generation", "failed_insert", "failed_commit"}

\* The chunks of an answer, from the definition of whitespace tokenization and
\* not from the scan: a token starts at a non-whitespace character that is first
\* or follows whitespace, and runs to the last character before the next
\* whitespace or the end.
TokenStarts(s) ==
    {i \in 1..Len(s) : s[i] \notin Whitespace /\ (i = 1 \/ s[i - 1] \in Whitespace)}
TokenEnd(s, i) ==
    CHOOSE j \in i..Len(s) :
        /\ \A k \in i..j : s[k] \notin Whitespace
        /\ j = Len(s) \/ s[j + 1] \in Whitespace
KthStart(s, k) ==
    CHOOSE i \in TokenStarts(s) : Cardinality({j \in TokenStarts(s) : j <= i}) = k
ExpectedChunks(s) ==
    [k \in 1..Cardinality(TokenStarts(s)) |->
        SubSeq(s, KthStart(s, k), TokenEnd(s, KthStart(s, k))) \o <<" ">>]
IsPrefix(p, s) == Len(p) <= Len(s) /\ \A i \in 1..Len(p) : p[i] = s[i]

\* ---------------------------------------------------------------- C1
\* C1: a POST /query ends either as a complete stream under a success status,
\* or, when retrieval, generation or the history insert fails, as a non-2xx
\* error response with no chunk; never as a success status whose stream breaks
\* off.
C1_StreamOrErrorResponse ==
    \A r \in Reqs :
        /\ qpc[r] \in FailedStages =>
              status[r] # 0 /\ status[r] \notin 200..299 /\ chunks[r] = << >>
        /\ qpc[r] = "done" => status[r] = 200 /\ chunks[r] = ExpectedChunks(answer[r])

\* ---------------------------------------------------------------- C2
\* C2: a query whose retrieval or generation call raised has executed no INSERT:
\* every row of chat_history, pending or committed, and every rowid ever given
\* belongs to another request.
C2_NoRecordAfterFailedCall ==
    \A r \in Reqs :
        qpc[r] \in {"failed_retrieval", "failed_generation"} =>
            /\ recId[r] = 0
            /\ \A row \in table \cup disk : \E o \in Reqs \ {r} : recId[o] = row.id
            /\ seq = Cardinality({o \in Reqs \ {r} : recId[o] # 0})

\* A generation failure beside another query's stored record.
C2_Witness ==
    \E r \in Reqs, o \in Reqs :
        /\ qpc[r] = "failed_generation"
        /\ recId[o] # 0
        /\ \E row \in table : row.id = recId[o]

\* ---------------------------------------------------------------- C3
\* A request's INSERT happens once, after its answer is there and before any
\* chunk, and adds exactly the row (new rowid, its query, its answer).
InsertsOnce(r) ==
    recId'[r] # recId[r] =>
        /\ recId[r] = 0
        /\ qpc[r] = "generated"
        /\ chunks[r] = << >>
        /\ \A row \in table : row.id # recId'[r]
        /\ table' = table \cup
              {[id |-> recId'[r], question |-> query[r], answer |-> answer[r]]}
\* Streaming is entered only by the commit that follows the request's INSERT.
CommitsBeforeStream(r) ==
    (qpc[r] # "streaming" /\ qpc'[r] = "streaming") =>
        /\ qpc[r] = "inserted"
        /\ recId[r] # 0
        /\ table' = table
        /\ disk' = table
\* A chunk goes out only while streaming, so after the INSERT and the commit.
StreamsAfterRecord(r) ==
    chunks'[r] # chunks[r] => qpc[r] = "streaming" /\ recId[r] # 0
\* Every new row is the INSERT of exactly one request.
RowsHaveOneOwner ==
    \A row \in table' \ table :
        Cardinality({r \in Reqs : recId'[r] = row.id /\ recId[r] = 0}) = 1
RecordStored(r) ==
    \E row \in table :
        row.id = recId[r] /\ row.question = query[r] /\ row.answer = answer[r]

Fetches(h) == hpc[h] = "selected" /\ hpc'[h] = "listed"

\* body lists every row of rows once, as {question, answer}, by strictly
\* decreasing id.
IsNewestFirst(body, rows) ==
    /\ Len(body) = Cardinality(rows)
    /\ \E f \in [1..Len(body) -> rows] :
          /\ \A i \in 1..Len(body), j \in 1..Len(body) : i < j => f[i].id > f[j].id
          /\ \A i \in 1..Len(body) :
                body[i] = [question |-> f[i].question, answer |-> f[i].answer]

\* C4: a GET /history that no other request's cursor call falls into (as after
\* any sequence of completed queries and clears) returns every stored record as
\* {question, answer} by strictly decreasing id; the record appended last, when
\* stored, comes first.
C4_HistoryNewestFirst ==
    [][\A h \in Clients :
         (Fetches(h) /\ cursor.owner = ClientId(h)) =>
             /\ IsNewestFirst(hresp'[h], table)
             /\ \A row \in table :
                   row.id = seq =>
                       hresp'[h][1] = [question |-> row.question, answer |-> row.answer]]_vars

\* A list of two different records, the one appended last first.
C4_Witness ==
    \E h \in Clients :
        /\ hpc[h] = "listed"
        /\ Len(hresp[h]) = 2
        /\ hresp[h][1] # hresp[h][2]
        /\ \E row \in table :
              /\ row.id = seq
              /\ hresp[h][1] = [question |-> row.question, answer |-> row.answer]

\* ---------------------------------------------------------------- C5
\* C5 as stated: a GET /history that begins after a DELETE /clear_history has
\* returned success, with no append executed or committed since that return,
\* returns the empty list.
C5_EmptyAfterClearReturned ==
    [][\A g \in Clients : \A h \in hafter[g] :
         (Fetches(g) /\ clean[h] \in {"yes", "late"}) => hresp'[g] = << >>]_vars

\* C5 as amended: once a DELETE /clear_history has returned success, a GET
\* /history (whenever it began) returns the empty list unless an INSERT was
\* executed after the DELETE statement of that clear.
C5_EmptyAfterClear ==
    [][\A g \in Clients, h \in Clients :
         (Fetches(g) /\ clean[h] = "yes") => hresp'[g] = << >>]_vars

\* A record was stored and committed, a clear returned success, no INSERT
\* since, and a GET that began after the clear has its list.
C5_Witness ==
    \E g \in Clients : \E h \in hafter[g] :
        /\ clean[h] = "yes"
        /\ hpc[g] = "listed"
        /\ hresp[g] = << >>
        /\ seq > 0
        /\ \E r \in Reqs : qpc[r] = "streaming"

\* ---------------------------------------------------------------- C6
\* C6: a stored record never changes; records disappear only all together, in
\* the DELETE of a clear_history; a new record's id is larger than every id
\* given before, cleared records included.
C6_AppendOnly ==
    /\ [][/\ \A row \in table : row \in table' \/ table' = {}
          /\ (table # {} /\ table' = {}) =>
                \E h \in Clients : hpc[h] = "idle" /\ hpc'[h] = "deleted"
          /\ \A row \in table' \ table :
                /\ row.id > seq
                /\ \A r \in Reqs : recId[r] < row.id
                /\ \A old \in table \cup disk : old.id < row.id]_vars
    /\ [](\A row \in table : \A other \in table : row.id = other.id => row = other)

\* A record appended after a clear: id 2 is stored, id 1 is gone.
C6_Witness ==
    /\ \E row \in table : row.id = 2
    /\ \A row \in table : row.id # 1
    /\ \E r \in Reqs : recId[r] = 1

\* --------------------------------------------------------------- C10
\* C10: the list a GET /history returns is the content chat_history had at some
\* instant of the call, whatever other requests do with the cursor in between.
C10_GetReturnsSomeContent ==
    [][\A h \in Clients : Fetches(h) => hresp'[h] \in hseen[h]]_vars

\* ---------------------------------------------------------------- C8
\* C8: the chunks sent are, in order, the whitespace-delimited tokens of the
\* answer, each followed by one space; a finished stream holds all of them, an
\* answer without tokens gives none, and after the last token the generator
\* returns.
C8_ChunksAreTokens ==
    \A r \in Reqs :
        /\ IsPrefix(chunks[r], ExpectedChunks(answer[r]))
        /\ qpc[r] = "done" => chunks[r] = ExpectedChunks(answer[r])
        /\ (qpc[r] = "streaming" /\ chunks[r] = ExpectedChunks(answer[r])) =>
              /\ ENABLED stream_answer_return(r)
              /\ ~ENABLED stream_answer_yield(r)
        /\ \A i \in 1..Len(chunks[r]) :
              LET c == chunks[r][i]
              IN  /\ Len(c) >= 2
                  /\ c[Len(c)] = " "
                  /\ \A k \in 1..(Len(c) - 1) : c[k] \notin Whitespace

\* The example of the specification, streamed to its end.
C8_Witness ==
    /\ qpc[1] = "done"
    /\ answer[1] = ExampleAnswer
    /\ chunks[1] = << <<"T", "h", "e", " ">>,
                      <<"f", "u", "n", "d", "i", "n", "g", " ">>,
                      <<"i", "s", " ">>,
                      <<"2", " ">>,
                      <<"m", "i", "l", "l", "i", "o", "n", " ">>,
                      <<"e", "u", "r", "o", "s", ".", " ">> >>

\* ---------------------------------------------------------------- C9
\* C9: every vector resize_embedding returns has exactly the target number of
\* components: the input itself when the lengths agree, its first components
\* when it is longer, the input followed by zeros when it is shorter; so has
\* every vector embed_query and embed_documents return.
C9_ResizedToTarget ==
    epc \in {"resized", "query", "documents"} =>
        /\ Len(resized) = Len(raw)
        /\ epc \in {"query", "documents"} => dim = target_size
        /\ \A i \in 1..Len(raw) :
              /\ Len(resized[i]) = dim
              /\ Len(raw[i]) = dim => resized[i] = raw[i]
              /\ \A j \in 1..dim :
                    resized[i][j] = IF j <= Len(raw[i]) THEN raw[i][j] ELSE 0

\* A longer and a shorter provider vector in one embed_documents call.
C9_Witness ==
    /\ epc = "documents"
    /\ Len(raw) = 2
    /\ Len(raw[1]) > target_size
    /\ Len(raw[2]) \in 1..(target_size - 1)
    /\ Len(resized[1]) = target_size
    /\ Len(resized[2]) = target_size

====
